---- MODULE Spec2Model ----
(***************************************************************************)
(* omega-logger: the logger registry (logging.js), the Logger hierarchy    *)
(* with inherited level and handlers (lib/logger.js, lib/HasLevel.js) and  *)
(* the dispatch of one log call to the effective handler list.             *)
(*                                                                         *)
(* Logger names are kept as sequences of dot-separated segments:          *)
(* "a.b.c" is <<"a","b","c">>, and the empty sequence is the empty or      *)
(* absent name.  A Logger instance is identified by its name and by the    *)
(* number of instances of that name constructed before it.                 *)
(***************************************************************************)
EXTENDS Integers, Sequences, FiniteSets, TLC

VARIABLES
    namedLoggers,       \* logging.namedLoggers: name -> Logger instance
    loggers,            \* every Logger instance constructed so far -> its fields
    loggerNamesSorted,  \* Logger.loggerNamesSorted
    handed,             \* history: <<argument, instance>> of every getLogger call
    ops,                \* number of property assignments made so far
    last,               \* the last operation and its outcome
    handlerState,       \* handler -> its own _silenced flag and its level name
    _silenceAll,        \* logging._silenceAll
    _silenceConsole,    \* logging._silenceConsole
    context,            \* the Context of the log call being dispatched
    views,              \* handler -> the view of `context` attached to it
    dumper,             \* the inspect options of the Dumper among the arguments
    rendered,           \* history: target -> the message it last read from `context`
    dateSeen            \* history: handler -> the date of the Context it last read shortDatetime from

\* The handlers and the process-wide flags.
hvars == <<handlerState, _silenceAll, _silenceConsole>>

\* The Context of a log call, its views and what was read from them.
cvars == <<context, views, dumper, rendered, dateSeen>>

vars == <<namedLoggers, loggers, loggerNamesSorted, handed, ops, last, hvars, cvars>>

----------------------------------------------------------------------------
(* Bounds *)

MaxLoggers == 2     \* Logger instances constructed by getLogger
MaxContexts == 3     \* Contexts constructed
MaxOps == 2         \* property assignments (level, propagate, handlers, silence)

----------------------------------------------------------------------------
(* Values *)

Names == {<<"a">>, <<"a", "b">>, <<"a", "b", "c">>, <<"root">>}
NoName == << >>
Segments == {"b", "c"}

Handlers == {"H0", "H1", "H2"}
defaultConsoleHandler == "H0"
HandlerLists == {<<"H1">>, <<"H2">>, <<"H1", "H2">>}

\* A JavaScript number or undefined.
Undefined == [def |-> FALSE, v |-> 0]
Num(n) == [def |-> TRUE, v |-> n]
UndefinedStr == "<undefined>"

levels == <<"TRACE", "DEBUG", "INFO", "WARN", "ERROR", "CRITICAL">>

\* The `level` argument of log(): a string, a number, or undefined.
Str(s) == [t |-> "str", s |-> s]
NumArg(n) == [t |-> "num", n |-> n]
UndefArg == [t |-> "undef"]
LevelArgs ==
    {Str("INFO"), Str("warn"), Str("CRITICAL"), Str("NOT_A_LEVEL"), NumArg(3), UndefArg}

\* The values assigned to logger.levelIdx.
LevelIdxInputs == {Undefined} \cup {Num(n) : n \in -1 .. 5}
ThresholdInputs == {Undefined, Num(0), Num(3), Num(5)}

RootInst == [n |-> <<"root">>, g |-> 0]
NoInst == [n |-> NoName, g |-> 0]

\* An object of extra properties over the keys k and j; 0 stands for a key
\* the object does not have.
NoData == [k |-> 0, j |-> 0]
ExtraDatas == {[k |-> 1, j |-> 0], [k |-> 2, j |-> 1]}

NoCtx == [logger |-> NoName, levelIdx |-> -1, data |-> NoData]

\* A string is the sequence of its parts; a Date is its ISO date and time.
Templates == {<<"m">>, <<"%s">>, <<"m", "%s">>}
ArgLists == {<< >>, <<"D">>, <<"x", "D">>}
NoDate == [date |-> UndefinedStr, time |-> UndefinedStr]
Dates == {[date |-> "d1", time |-> "t1"], [date |-> "d1", time |-> "t2"],
          [date |-> "d2", time |-> "t1"]}
NotRendered == << >>

\* What a message or shortDatetime can be read from: the Context itself or
\* the view attached to a handler.
Targets == {"ctx", "H0", "H1"}

----------------------------------------------------------------------------
(* logging.js: the level registry *)

\* Array.prototype.indexOf on `levels`: the 0-based index, or -1.
indexOf(s) ==
    IF \E i \in 1 .. Len(levels) : levels[i] = s
    THEN (CHOOSE i \in 1 .. Len(levels) : levels[i] = s) - 1
    ELSE -1

\* String.prototype.toUpperCase on the strings the model passes around.
toUpperCase(s) ==
    CASE s = "trace" -> "TRACE"
      [] s = "info" -> "INFO"
      [] s = "warn" -> "WARN"
      [] s = "Critical" -> "CRITICAL"
      [] s = "not_a_level" -> "NOT_A_LEVEL"
      [] OTHER -> s

\* Number.prototype.toString for the numbers the model passes around.
toString(n) ==
    CASE n = 0 -> "0" [] n = 1 -> "1" [] n = 2 -> "2" [] n = 3 -> "3"
      [] n = 4 -> "4" [] n = 5 -> "5" [] n = 6 -> "6" [] n = 7 -> "7"
      [] OTHER -> "-1"

\* getLevelIdx(level): the index, or the Error it throws (raised = TRUE).
getLevelIdx(level) ==
    IF level.t = "undef" THEN [raised |-> FALSE, idx |-> -1]
    ELSE LET str == IF level.t = "str" THEN level.s ELSE toString(level.n)
             exact == indexOf(str)
             upper == indexOf(toUpperCase(str))
         IN  IF exact >= 0 THEN [raised |-> FALSE, idx |-> exact]
             ELSE IF upper >= 0 THEN [raised |-> FALSE, idx |-> upper]
             ELSE [raised |-> TRUE, idx |-> -1]

\* logging.levels[i] for a number i; undefined out of range.
levelAt(i) == IF i >= 0 /\ i < Len(levels) THEN levels[i + 1] ELSE UndefinedStr

\* A level name, or undefined, passed as the `level` argument.
asArg(level) == IF level = UndefinedStr THEN UndefArg ELSE Str(level)

\* nextLevelDown(level): logging.levels[getLevelIdx(level) - 1]
nextLevelDown(level) ==
    LET r == getLevelIdx(level)
    IN  IF r.raised THEN [raised |-> TRUE, level |-> UndefinedStr]
        ELSE [raised |-> FALSE, level |-> levelAt(r.idx - 1)]

\* Variant of nextLevelUp without the fallback to the last level.
nextLevelUp_noClamp(level) ==
    LET r == getLevelIdx(level)
    IN  IF r.raised THEN [raised |-> TRUE, level |-> UndefinedStr]
        ELSE [raised |-> FALSE, level |-> levelAt(r.idx + 1)]

\* nextLevelUp(level): logging.levels[getLevelIdx(level) + 1] || the last level
nextLevelUp(level) ==
    LET r == getLevelIdx(level)
    IN  IF r.raised THEN [raised |-> TRUE, level |-> UndefinedStr]
        ELSE [raised |-> FALSE,
              level |-> IF levelAt(r.idx + 1) # UndefinedStr THEN levelAt(r.idx + 1)
                        ELSE levelAt(Len(levels) - 1)]

----------------------------------------------------------------------------
(* lib/logger.js: the Logger and its inherited properties.  The operators  *)
(* take the registry nl (logging.namedLoggers) and the instances lg they   *)
(* read, so that an operation can use them on the state it has built.      *)

\* new Logger(name): propagate = true, HasLevel.apply(this) leaves __levelIdx
\* undefined; no own level name, no own handlers, not silenced.
NewLogger(name) ==
    [name |-> name, propagate |-> TRUE, __levelIdx |-> Undefined,
     __level |-> UndefinedStr, _handlers |-> << >>, _silenced |-> FALSE,
     extraData |-> NoData]

\* logging.root = new Logger('root', {propagate: false, handlers: [...]})
RootLogger ==
    [NewLogger(<<"root">>) EXCEPT !.propagate = FALSE,
                                  !._handlers = <<defaultConsoleHandler>>]

\* name.split('.') with the last k segments popped, joined again.
Prefix(name, k) == SubSeq(name, 1, Len(name) - k)

\* The registered ancestors of `name`, nearest first: the loggers the while
\* loops of getInherited and accumInherited find in namedLoggers.
RECURSIVE ancestorsFrom(_, _, _)
ancestorsFrom(nl, name, k) ==
    IF Len(name) - k < 1 THEN << >>
    ELSE LET p == Prefix(name, k)
         IN  (IF p \in DOMAIN nl THEN <<nl[p]>> ELSE << >>)
             \o ancestorsFrom(nl, name, k + 1)

ancestorsIn(nl, lg, id) == ancestorsFrom(nl, lg[id].name, 1)

\* Logger#getInherited('__levelIdx', true): this, then the ancestors, then root.
RECURSIVE firstLevelIdx(_, _)
firstLevelIdx(lg, chain) ==
    IF chain = << >> THEN lg[RootInst].__levelIdx
    ELSE IF lg[Head(chain)].__levelIdx.def THEN lg[Head(chain)].__levelIdx
    ELSE firstLevelIdx(lg, Tail(chain))

getInheritedLevelIdx(nl, lg, id) == firstLevelIdx(lg, <<id>> \o ancestorsIn(nl, lg, id))

\* Logger#getInherited('__level', true)
RECURSIVE firstLevel(_, _)
firstLevel(lg, chain) ==
    IF chain = << >> THEN lg[RootInst].__level
    ELSE IF lg[Head(chain)].__level # UndefinedStr THEN lg[Head(chain)].__level
    ELSE firstLevel(lg, Tail(chain))

getInheritedLevel(nl, lg, id) == firstLevel(lg, <<id>> \o ancestorsIn(nl, lg, id))

\* `x || -1` on a number or undefined.
orMinusOne(x) == IF x.def /\ x.v # 0 THEN x.v ELSE -1

\* Logger#_levelIdx (getter), read through HasLevel#levelIdx
get_levelIdx(nl, lg, id) == orMinusOne(getInheritedLevelIdx(nl, lg, id))

\* The stopCondition the Logger#handlers getter passes to accumInherited.
stopCondition(logger) == IF logger.propagate THEN "stopAfter" ELSE "none"

\* The while loop of accumInherited over the registered ancestors; `stopped`
\* says whether the loop returned from the function.
RECURSIVE accumLoop(_, _, _)
accumLoop(lg, chain, accum) ==
    IF chain = << >> THEN [accum |-> accum, stopped |-> FALSE]
    ELSE LET ancestorLogger == lg[Head(chain)]
             stopIndicator == stopCondition(ancestorLogger)
             next == accum \o ancestorLogger._handlers
         IN  IF stopIndicator = "stopBefore" THEN [accum |-> accum, stopped |-> TRUE]
             ELSE IF stopIndicator = "stopAfter" THEN [accum |-> next, stopped |-> TRUE]
             ELSE accumLoop(lg, Tail(chain), next)

\* Logger#accumInherited('_handlers', stopCondition)
accumInherited(nl, lg, id) ==
    LET accum == lg[id]._handlers
    IN  IF lg[id].name = <<"root">> THEN accum
        ELSE LET r == accumLoop(lg, ancestorsIn(nl, lg, id), accum)
             IN  IF r.stopped THEN r.accum
                 ELSE r.accum \o lg[RootInst]._handlers

\* What reading a property of a Logger yields: undefined, an empty object,
\* or a Logger instance.
UndefinedValue == [t |-> "undefined", id |-> NoInst]
EmptyObject == [t |-> "object", id |-> NoInst]
LoggerRef(id) == [t |-> "logger", id |-> id]

\* logger.parent: the constructor assigns name, propagate and the keys of
\* config, getLogger passes no config, and the prototype has no `parent`.
parent(lg, id) == UndefinedValue

\* The properties as read in the current state.
levelIdxOf(id) == get_levelIdx(namedLoggers, loggers, id)     \* logger.levelIdx
levelOf(id) == getInheritedLevel(namedLoggers, loggers, id)   \* logger.level
handlersOf(id) == accumInherited(namedLoggers, loggers, id)   \* logger.handlers

\* Variant of Logger#silenced that reads the own flag only.
silenced_ownOnly(lg, id) == lg[id]._silenced

\* Logger#silenced: this._silenced || logging._silenceAll
silenced(lg, id) == lg[id]._silenced \/ _silenceAll

----------------------------------------------------------------------------
(* lib/logger.js: Logger#log *)

\* The console handlers among Handlers: the default console handler.
isConsole(handler) == handler = defaultConsoleHandler

\* new ConsoleHandler() reads ConsoleHandler.prototype.level = 'INFO'; a
\* handler built on BaseHandler alone has no level.  HasLevel.apply(this)
\* gives every instance its own _levelIdx = -1.
NewHandler(handler) ==
    [_silenced |-> FALSE, _levelIdx |-> -1,
     _level |-> IF isConsole(handler) THEN "INFO" ELSE UndefinedStr,
     _lastDate |-> UndefinedStr]

\* Variant of the silenced getters where every handler reads the
\* silence-console flag.
handlerSilenced_allReadConsole(handler) ==
    handlerState[handler]._silenced \/ _silenceAll \/ _silenceConsole

\* BaseHandler#silenced and ConsoleHandler#silenced
handlerSilenced(handler) ==
    \/ handlerState[handler]._silenced
    \/ _silenceAll
    \/ isConsole(handler) /\ _silenceConsole

\* Variant of the test of BaseHandler#log with a strict comparison.
handlerAccepts_strict(handler, level) ==
    ~handlerSilenced(handler) /\ indexOf(level) > indexOf(handlerState[handler]._level)

\* The test of BaseHandler#log: onMessage is invoked with a Context of level
\* name `level` (undefined for an index outside logging.levels).
handlerAccepts(handler, level) ==
    ~handlerSilenced(handler) /\ indexOf(level) >= indexOf(handlerState[handler]._level)

\* assign(target, source): every key of source is copied onto target.
assign(target, source) ==
    [key \in DOMAIN target |-> IF source[key] # 0 THEN source[key] ELSE target[key]]

\* The extra properties of all log messages, with LOG_MSG_DATA not set.
globalLogData == NoData

\* new Context(logger, levelIdx, message, args): the logger name, the level
\* index, and the properties assigned from globalLogData.
NewContext(logger, levelIdx) ==
    [logger |-> logger, levelIdx |-> levelIdx, data |-> assign(NoData, globalLogData)]

\* offered: the handlers whose log() was called; received: those whose
\* onMessage was invoked; failed: those that threw.
NoOutcome ==
    [raised |-> "none", offered |-> << >>, received |-> << >>, failed |-> {},
     ctx |-> NoCtx, ret |-> NoInst]

\* Variant of the try/catch whose catch block lets the exception out again.
tryHandlerLog_rethrow(handler, T) == [threw |-> handler \in T, escaped |-> handler \in T]

\* try { handler.log(context) } catch(exc) { console.error(...) }: the
\* handlers in T throw when their onMessage runs; `escaped` says whether the
\* exception leaves the try.
tryHandlerLog(handler, T) == [threw |-> handler \in T, escaped |-> FALSE]

RECURSIVE forEachHandler(_, _, _)

\* Variant of the loop in which a handler that throws costs log() its
\* return value.
forEachHandler_loseReturn(hs, T, acc) ==
    IF hs = << >> THEN acc
    ELSE LET invoked == handlerAccepts(Head(hs), levelAt(acc.ctx.levelIdx))
             r == tryHandlerLog(Head(hs), IF invoked THEN T ELSE {})
             acc2 == [acc EXCEPT !.offered = Append(@, Head(hs)),
                                 !.received = IF invoked THEN Append(@, Head(hs)) ELSE @,
                                 !.failed = IF r.threw THEN @ \cup {Head(hs)} ELSE @,
                                 !.ret = IF r.threw THEN NoInst ELSE @]
         IN  forEachHandler(Tail(hs), T, acc2)

\* this.handlers.forEach(function eachHandler(handler) {...})
forEachHandler(hs, T, acc) ==
    IF hs = << >> THEN acc
    ELSE LET invoked == handlerAccepts(Head(hs), levelAt(acc.ctx.levelIdx))
             r == tryHandlerLog(Head(hs), IF invoked THEN T ELSE {})
             acc2 == [acc EXCEPT !.offered = Append(@, Head(hs)),
                                 !.received = IF invoked THEN Append(@, Head(hs)) ELSE @,
                                 !.failed = IF r.threw THEN @ \cup {Head(hs)} ELSE @]
         IN  IF r.escaped
             THEN [acc2 EXCEPT !.raised = "HandlerFailure", !.ret = NoInst]
             ELSE forEachHandler(Tail(hs), T, acc2)

\* Variant of the level test with a strict comparison.
passesLevel_strict(levelIdx, threshold) == levelIdx > threshold

\* The level test of log(): levelIdx >= this.levelIdx
passesLevel(levelIdx, threshold) == levelIdx >= threshold

\* Variant of log that resolves the level before it looks at `silenced`.
log_levelFirst(nl, lg, id, level, T) ==
    LET r == getLevelIdx(level)
    IN  IF r.raised THEN [NoOutcome EXCEPT !.raised = "UnknownLevel"]
        ELSE IF silenced(lg, id) THEN [NoOutcome EXCEPT !.ret = id]
        ELSE IF passesLevel(r.idx, get_levelIdx(nl, lg, id))
        THEN forEachHandler(accumInherited(nl, lg, id), T,
                 [NoOutcome EXCEPT !.ctx = NewContext(lg[id].name, r.idx),
                                   !.ret = id])
        ELSE [NoOutcome EXCEPT !.ret = id]

\* Logger#log(level, message) on instance id; the handlers in T throw.
log(nl, lg, id, level, T) ==
    IF silenced(lg, id) THEN [NoOutcome EXCEPT !.ret = id]
    ELSE LET r == getLevelIdx(level)
         IN  IF r.raised THEN [NoOutcome EXCEPT !.raised = "UnknownLevel"]
             ELSE IF passesLevel(r.idx, get_levelIdx(nl, lg, id))
             THEN forEachHandler(accumInherited(nl, lg, id), T,
                      [NoOutcome EXCEPT !.ctx = NewContext(lg[id].name, r.idx),
                                        !.ret = id])
             ELSE [NoOutcome EXCEPT !.ret = id]

----------------------------------------------------------------------------
(* lib/context.js: the Context of a log call and its per-handler views *)

\* new Context(logger, levelIdx, message, args) at the time `now`: the setter
\* of message stores _message and _date = new Date().  n counts the Contexts
\* constructed so far (0: none yet).
Context(logger, levelIdx, message, args, now) ==
    [n |-> 0, logger |-> logger, levelIdx |-> levelIdx,
     data |-> NewContext(logger, levelIdx).data,
     _message |-> message, args |-> args, _date |-> now, levelColor |-> UndefinedStr]

NoContext == Context(NoName, -1, << >>, << >>, NoDate)

\* ConsoleHandler.prototype.dumperArgs = {colors: true}; other handlers have
\* none.
dumperArgs(handler) == IF isConsole(handler) THEN "colors" ELSE UndefinedStr

\* ConsoleHandler.prototype.levelColors[level]
levelColors(level) ==
    CASE level = "TRACE" -> "1;30" [] level = "DEBUG" -> "37" [] level = "INFO" -> "32"
      [] level = "WARN" -> "33" [] level = "ERROR" -> "31" [] level = "CRITICAL" -> "1;31"
      [] OTHER -> UndefinedStr

NoView ==
    [attached |-> FALSE, handler |-> UndefinedStr, _dumperArgs |-> UndefinedStr,
     levelColor |-> UndefinedStr]

\* context.attachToHandler(handler): Object.create(this, {handler, _dumperArgs,
\* _context}), an object of its own whose other properties are read from the
\* Context.
attachToHandler(handler) ==
    [attached |-> TRUE, handler |-> handler, _dumperArgs |-> dumperArgs(handler),
     levelColor |-> UndefinedStr]

\* this.handler as read on a target: undefined on the Context itself.
handlerOf(vw, target) == IF target = "ctx" THEN UndefinedStr ELSE vw[target].handler

\* Dumper#setLoggingContext: this.inspectOpts = (context.handler || {}).dumperArgs
setLoggingContext(handler) ==
    IF handler = UndefinedStr \/ dumperArgs(handler) = UndefinedStr THEN "default"
    ELSE dumperArgs(handler)

\* String(arg): Dumper#toString inspects its target with the current options.
argString(arg, opts) ==
    IF arg = "D" THEN (IF opts = "colors" THEN "D-colors" ELSE "D-plain") ELSE arg

\* util.format(template, ...args): each %s takes the next argument, the
\* arguments left over are appended.
RECURSIVE format(_, _, _)
format(template, args, opts) ==
    IF template = << >>
    THEN [i \in 1 .. Len(args) |-> argString(args[i], opts)]
    ELSE IF Head(template) = "%s" /\ args # << >>
    THEN <<argString(Head(args), opts)>> \o format(Tail(template), Tail(args), opts)
    ELSE <<Head(template)>> \o format(Tail(template), args, opts)

\* Variant of the message getter that hands the target to the Dumper only
\* when the target has a handler, and otherwise leaves the Dumper's options
\* as the last reader set them.
message_staleDumper(ctx, handler, opts) ==
    LET o == IF handler # UndefinedStr /\ \E i \in 1 .. Len(ctx.args) : ctx.args[i] = "D"
             THEN setLoggingContext(handler) ELSE opts
    IN  [str |-> format(ctx._message, ctx.args, o), dumper |-> o]

\* Context#message (getter) read on a target whose handler is `handler`:
\* every argument with setLoggingContext gets the target, then util.format.
message(ctx, handler, opts) ==
    LET o == IF \E i \in 1 .. Len(ctx.args) : ctx.args[i] = "D"
             THEN setLoggingContext(handler) ELSE opts
    IN  [str |-> format(ctx._message, ctx.args, o), dumper |-> o]

\* Variant of shortDatetime that never stores the date it printed.
shortDatetime_noStore(ctx, handler, lastDate) ==
    IF handler # UndefinedStr /\ ctx._date.date # lastDate
    THEN [str |-> <<ctx._date.date, ctx._date.time>>, _lastDate |-> lastDate]
    ELSE [str |-> <<ctx._date.time>>, _lastDate |-> lastDate]

\* Context#shortDatetime (getter) read on a target whose handler is
\* `handler` and whose handler._lastDate is lastDate.
shortDatetime(ctx, handler, lastDate) ==
    IF handler # UndefinedStr /\ ctx._date.date # lastDate
    THEN [str |-> <<ctx._date.date, ctx._date.time>>, _lastDate |-> ctx._date.date]
    ELSE [str |-> <<ctx._date.time>>, _lastDate |-> lastDate]

\* Variant of onMessage whose levelColor lands on the Context under the view.
onMessage_writesContext(h, ctx, view, hs, opts) ==
    LET sd == shortDatetime(ctx, view.handler, hs._lastDate)
        m == message(ctx, view.handler, opts)
    IN  [ctx |-> IF isConsole(h)
                 THEN [ctx EXCEPT !.levelColor = levelColors(levelAt(ctx.levelIdx))]
                 ELSE ctx,
         view |-> view, hstate |-> [hs EXCEPT !._lastDate = sd._lastDate],
         dumper |-> m.dumper, shortDatetime |-> sd.str, message |-> m.str]

\* handler.onMessage(view).  ConsoleHandler: context.levelColor = ..., then
\* strFormat(this.format, context) reads shortDatetime and message; a
\* FileHandler whose format names shortDatetime and message reads them only.
onMessage(h, ctx, view, hs, opts) ==
    LET sd == shortDatetime(ctx, view.handler, hs._lastDate)
        m == message(ctx, view.handler, opts)
    IN  [ctx |-> ctx,
         view |-> IF isConsole(h)
                  THEN [view EXCEPT !.levelColor = levelColors(levelAt(ctx.levelIdx))]
                  ELSE view,
         hstate |-> [hs EXCEPT !._lastDate = sd._lastDate],
         dumper |-> m.dumper, shortDatetime |-> sd.str, message |-> m.str]

----------------------------------------------------------------------------
(* logging.js: the logger registry *)

\* name.length of the dotted name.
RECURSIVE length(_)
length(name) ==
    IF name = << >> THEN 0
    ELSE (IF Head(name) = "root" THEN 4 ELSE 1)
         + (IF Len(name) > 1 THEN 1 ELSE 0) + length(Tail(name))

\* The insertion of getLogger: splice before the first listed name that is
\* shorter than `name`, push when there is none.
insertName(sorted, name) ==
    LET hits == {i \in 1 .. Len(sorted) : length(name) > length(sorted[i])}
    IN  IF hits = {} THEN Append(sorted, name)
        ELSE LET i == CHOOSE j \in hits : \A k \in hits : j <= k
             IN  SubSeq(sorted, 1, i - 1) \o <<name>> \o SubSeq(sorted, i, Len(sorted))

\* The instance `new Logger(name)` constructs.
fresh(lg, name) == [n |-> name, g |-> Cardinality({i \in DOMAIN lg : i.n = name})]

\* What getLogger stores in namedLoggers for a new logger.
register(nl, name, id) == nl @@ (name :> id)

\* Variant of getLogger that also constructs and registers the missing
\* parent of a new logger.
getLogger_withParent(nl, lg, sorted, name) ==
    IF name = NoName THEN [ret |-> RootInst, nl |-> nl, lg |-> lg, sorted |-> sorted]
    ELSE IF name \in DOMAIN nl THEN [ret |-> nl[name], nl |-> nl, lg |-> lg, sorted |-> sorted]
    ELSE LET id == fresh(lg, name)
             up == Prefix(name, 1)
             nl1 == register(nl, name, id)
             lg1 == lg @@ (id :> NewLogger(name))
             sorted1 == insertName(sorted, name)
         IN  IF Len(name) >= 2 /\ up \notin DOMAIN nl
             THEN [ret |-> id,
                   nl |-> register(nl1, up, fresh(lg1, up)),
                   lg |-> lg1 @@ (fresh(lg1, up) :> NewLogger(up)),
                   sorted |-> insertName(sorted1, up)]
             ELSE [ret |-> id, nl |-> nl1, lg |-> lg1, sorted |-> sorted1]

\* logging.getLogger(name): the instance returned and the registry after it.
getLogger(nl, lg, sorted, name) ==
    IF name = NoName THEN [ret |-> RootInst, nl |-> nl, lg |-> lg, sorted |-> sorted]
    ELSE IF name \in DOMAIN nl THEN [ret |-> nl[name], nl |-> nl, lg |-> lg, sorted |-> sorted]
    ELSE LET id == fresh(lg, name)
         IN  [ret |-> id,
              nl |-> register(nl, name, id),
              lg |-> lg @@ (id :> NewLogger(name)),
              sorted |-> insertName(sorted, name)]

----------------------------------------------------------------------------
(* State machine *)

\* `last` names the last operation; a log call adds its logger, its level
\* argument and its outcome, a levelIdx assignment its logger and its value.
\* A handler operation adds its level argument, the level name it computed
\* (res) and whether it raised; a per-level method adds the throwing handlers.
NoLast ==
    [op |-> "init", logger |-> NoInst, lvl |-> UndefArg, val |-> Undefined,
     out |-> NoOutcome, res |-> UndefinedStr, T |-> {},
     target |-> UndefinedStr, message |-> NotRendered, shortDatetime |-> NotRendered]

Init ==
    /\ namedLoggers = << >>
    /\ loggers = (RootInst :> RootLogger)
    /\ loggerNamesSorted = << <<"root">> >>
    /\ handed = {}
    /\ handlerState = [h \in Handlers |-> NewHandler(h)]
    /\ _silenceAll = FALSE
    /\ _silenceConsole = FALSE
    /\ ops = 0
    /\ last = NoLast
    /\ context = NoContext
    /\ views = [h \in Handlers |-> NoView]
    /\ dumper = "default"
    /\ rendered = [t \in Targets |-> NotRendered]
    /\ dateSeen = [h \in Handlers |-> UndefinedStr]

\* A getLogger call may construct one more Logger while the bound allows it.
mayCall(name) ==
    name = NoName \/ name \in DOMAIN namedLoggers
        \/ Cardinality(DOMAIN loggers) - 1 < MaxLoggers

\* The registry part of a step that calls getLogger(name).
callGetLogger(name, r) ==
    /\ namedLoggers' = r.nl
    /\ loggers' = r.lg
    /\ loggerNamesSorted' = r.sorted
    /\ handed' = handed \cup {[arg |-> name, ret |-> r.ret]}

\* logging.getLogger(name)
GetLogger(name) ==
    /\ mayCall(name)
    /\ LET r == getLogger(namedLoggers, loggers, loggerNamesSorted, name)
       IN  /\ callGetLogger(name, r)
           /\ last' = [NoLast EXCEPT !.op = "getLogger"]
    /\ UNCHANGED <<ops, hvars, cvars>>

\* logger.child(seg): getLogger(this.name + '.' + seg)
Child(id, seg) ==
    LET name == loggers[id].name \o <<seg>>
    IN  /\ name \in Names
        /\ mayCall(name)
        /\ LET r == getLogger(namedLoggers, loggers, loggerNamesSorted, name)
           IN  /\ callGetLogger(name, r)
               /\ last' = [NoLast EXCEPT !.op = "child"]
        /\ UNCHANGED <<ops, hvars, cvars>>

\* logging.loggerFor(obj), rel being path.relative(mainDir, filename):
\* getLogger(loggerName || 'root')
LoggerFor(rel) ==
    LET name == IF rel = NoName THEN <<"root">> ELSE rel
    IN  /\ mayCall(name)
        /\ LET r == getLogger(namedLoggers, loggers, loggerNamesSorted, name)
           IN  /\ callGetLogger(name, r)
               /\ last' = [NoLast EXCEPT !.op = "loggerFor"]
        /\ UNCHANGED <<ops, hvars, cvars>>

\* logger.log(level, message): changes nothing but the recorded outcome.
Log(id, level, T) ==
    /\ last' = [NoLast EXCEPT !.op = "log", !.logger = id, !.lvl = level,
                              !.out = log(namedLoggers, loggers, id, level, T)]
    /\ UNCHANGED <<namedLoggers, loggers, loggerNamesSorted, handed, ops, hvars, cvars>>

\* logging.log(level, message): getLogger('root'), then log on what it returns.
ModuleLog(level, T) ==
    /\ mayCall(<<"root">>)
    /\ LET r == getLogger(namedLoggers, loggers, loggerNamesSorted, <<"root">>)
       IN  /\ callGetLogger(<<"root">>, r)
           /\ last' = [NoLast EXCEPT !.op = "logging.log", !.logger = r.ret, !.lvl = level,
                                     !.out = log(r.nl, r.lg, r.ret, level, T)]
    /\ UNCHANGED <<ops, hvars, cvars>>

\* logger.levelIdx = v: HasLevel#levelIdx (setter) over Logger#_levelIdx and
\* Logger#_level.
setLevelIdx(nl, lg, id, v) ==
    LET value == IF v.def THEN v.v ELSE -1
        own == IF value = -1 THEN Undefined ELSE Num(value)
        lg1 == [lg EXCEPT ![id].__levelIdx = own]
    IN  [lg1 EXCEPT ![id].__level = levelAt(get_levelIdx(nl, lg1, id))]

SetLevelIdx(id, v) ==
    /\ ops < MaxOps
    /\ loggers' = setLevelIdx(namedLoggers, loggers, id, v)
    /\ ops' = ops + 1
    /\ last' = [NoLast EXCEPT !.op = "levelIdx=", !.logger = id, !.val = v]
    /\ UNCHANGED <<namedLoggers, loggerNamesSorted, handed, hvars, cvars>>

\* logger.propagate = b
SetPropagate(id, b) ==
    /\ ops < MaxOps
    /\ loggers' = [loggers EXCEPT ![id].propagate = b]
    /\ ops' = ops + 1
    /\ last' = [NoLast EXCEPT !.op = "propagate="]
    /\ UNCHANGED <<namedLoggers, loggerNamesSorted, handed, hvars, cvars>>

\* logger.handlers = hs
SetHandlers(id, hs) ==
    /\ ops < MaxOps
    /\ loggers' = [loggers EXCEPT ![id]._handlers = hs]
    /\ ops' = ops + 1
    /\ last' = [NoLast EXCEPT !.op = "handlers="]
    /\ UNCHANGED <<namedLoggers, loggerNamesSorted, handed, hvars, cvars>>

\* logger.silence()
Silence(id) ==
    /\ ops < MaxOps
    /\ loggers' = [loggers EXCEPT ![id]._silenced = TRUE]
    /\ ops' = ops + 1
    /\ last' = [NoLast EXCEPT !.op = "silence"]
    /\ UNCHANGED <<namedLoggers, loggerNamesSorted, handed, hvars, cvars>>

\* logger.extraData = data: a plain property of the instance.
SetExtraData(id, data) ==
    /\ ops < MaxOps
    /\ loggers' = [loggers EXCEPT ![id].extraData = data]
    /\ ops' = ops + 1
    /\ last' = [NoLast EXCEPT !.op = "extraData=", !.logger = id]
    /\ UNCHANGED <<namedLoggers, loggerNamesSorted, handed, hvars, cvars>>

\* logger.unsilence()
Unsilence(id) ==
    /\ ops < MaxOps
    /\ loggers' = [loggers EXCEPT ![id]._silenced = FALSE]
    /\ ops' = ops + 1
    /\ last' = [NoLast EXCEPT !.op = "unsilence"]
    /\ UNCHANGED <<namedLoggers, loggerNamesSorted, handed, hvars, cvars>>

\* logger.<level>(message): the method Logger.logAt(level) builds from
\* _logMethodTemplate with _LEVEL_ replaced by getLevelIdx(level), that is
\* this.log(<index>, message).
logAt(nl, lg, id, level, T) == log(nl, lg, id, NumArg(getLevelIdx(Str(level)).idx), T)

LogMethod(id, level, T) ==
    /\ last' = [NoLast EXCEPT !.op = "logAt", !.logger = id, !.lvl = Str(level), !.T = T,
                              !.out = logAt(namedLoggers, loggers, id, level, T)]
    /\ UNCHANGED <<namedLoggers, loggers, loggerNamesSorted, handed, ops, hvars, cvars>>

\* Variant of the level setter that clears the level before it looks the
\* name up.
setLevel_clearFirst(h, level) ==
    LET r == getLevelIdx(level)
        cleared == [h EXCEPT !._levelIdx = -1, !._level = UndefinedStr]
    IN  IF r.raised THEN [raised |-> TRUE, h |-> cleared]
        ELSE [raised |-> FALSE,
              h |-> [h EXCEPT !._levelIdx = r.idx, !._level = levelAt(r.idx)]]

\* handler.level = level: HasLevel#level (setter) over plain properties.
setLevel(h, level) ==
    LET r == getLevelIdx(level)
    IN  IF r.raised THEN [raised |-> TRUE, h |-> h]
        ELSE [raised |-> FALSE,
              h |-> [h EXCEPT !._levelIdx = r.idx, !._level = levelAt(r.idx)]]

Raised(b) == IF b THEN "UnknownLevel" ELSE "none"

\* logger.level = level: HasLevel#level (setter), this.levelIdx =
\* logging.getLevelIdx(value), over Logger#_levelIdx and Logger#_level.
setLoggerLevel(nl, lg, id, level) ==
    LET r == getLevelIdx(level)
    IN  IF r.raised THEN [raised |-> TRUE, lg |-> lg]
        ELSE [raised |-> FALSE, lg |-> setLevelIdx(nl, lg, id, Num(r.idx))]

SetLevel(id, level) ==
    /\ ops < MaxOps
    /\ LET r == setLoggerLevel(namedLoggers, loggers, id, level)
       IN  /\ loggers' = r.lg
           /\ last' = [NoLast EXCEPT !.op = "logger.level=", !.logger = id, !.lvl = level,
                                     !.out.raised = Raised(r.raised)]
    /\ ops' = ops + 1
    /\ UNCHANGED <<namedLoggers, loggerNamesSorted, handed, hvars, cvars>>

SetHandlerLevel(handler, level) ==
    /\ ops < MaxOps
    /\ LET r == setLevel(handlerState[handler], level)
       IN  /\ handlerState' = [handlerState EXCEPT ![handler] = r.h]
           /\ last' = [NoLast EXCEPT !.op = "level=", !.lvl = level,
                                     !.val = Num(getLevelIdx(level).idx),
                                     !.res = r.h._level, !.out.raised = Raised(r.raised)]
    /\ ops' = ops + 1
    /\ UNCHANGED <<namedLoggers, loggers, loggerNamesSorted, handed, _silenceAll, _silenceConsole, cvars>>

\* handler.lessVerbose(): this.level = logging.nextLevelUp(this.level)
LessVerbose(handler) ==
    /\ ops < MaxOps
    /\ LET old == asArg(handlerState[handler]._level)
           up == nextLevelUp(old)
           r == IF up.raised THEN [raised |-> TRUE, h |-> handlerState[handler]]
                ELSE setLevel(handlerState[handler], asArg(up.level))
       IN  /\ handlerState' = [handlerState EXCEPT ![handler] = r.h]
           /\ last' = [NoLast EXCEPT !.op = "lessVerbose", !.lvl = old,
                                     !.res = up.level, !.out.raised = Raised(r.raised)]
    /\ ops' = ops + 1
    /\ UNCHANGED <<namedLoggers, loggers, loggerNamesSorted, handed, _silenceAll, _silenceConsole, cvars>>

\* handler.moreVerbose(): this.level = logging.nextLevelDown(this.level)
MoreVerbose(handler) ==
    /\ ops < MaxOps
    /\ LET old == asArg(handlerState[handler]._level)
           down == nextLevelDown(old)
           r == IF down.raised THEN [raised |-> TRUE, h |-> handlerState[handler]]
                ELSE setLevel(handlerState[handler], asArg(down.level))
       IN  /\ handlerState' = [handlerState EXCEPT ![handler] = r.h]
           /\ last' = [NoLast EXCEPT !.op = "moreVerbose", !.lvl = old,
                                     !.res = down.level, !.out.raised = Raised(r.raised)]
    /\ ops' = ops + 1
    /\ UNCHANGED <<namedLoggers, loggers, loggerNamesSorted, handed, _silenceAll, _silenceConsole, cvars>>

\* handler.silence()
HandlerSilence(handler) ==
    /\ ops < MaxOps
    /\ handlerState' = [handlerState EXCEPT ![handler]._silenced = TRUE]
    /\ ops' = ops + 1
    /\ last' = [NoLast EXCEPT !.op = "handler.silence"]
    /\ UNCHANGED <<namedLoggers, loggers, loggerNamesSorted, handed, _silenceAll, _silenceConsole, cvars>>

\* handler.unsilence()
HandlerUnsilence(handler) ==
    /\ ops < MaxOps
    /\ handlerState' = [handlerState EXCEPT ![handler]._silenced = FALSE]
    /\ ops' = ops + 1
    /\ last' = [NoLast EXCEPT !.op = "handler.unsilence"]
    /\ UNCHANGED <<namedLoggers, loggers, loggerNamesSorted, handed, _silenceAll, _silenceConsole, cvars>>

\* logging.silence(all): silence-all when `all` is true, silence-console
\* otherwise.
SilenceProcess(all) ==
    /\ ops < MaxOps
    /\ _silenceAll' = (_silenceAll \/ all)
    /\ _silenceConsole' = (_silenceConsole \/ ~all)
    /\ ops' = ops + 1
    /\ last' = [NoLast EXCEPT !.op = "logging.silence"]
    /\ UNCHANGED <<namedLoggers, loggers, loggerNamesSorted, handed, handlerState, cvars>>

\* logging.unsilence(): clears process-wide flags; which of the two one call
\* clears is left open, so `cleared` ranges over every choice.
UnsilenceProcess(cleared) ==
    /\ ops < MaxOps
    /\ _silenceAll' = (_silenceAll /\ "all" \notin cleared)
    /\ _silenceConsole' = (_silenceConsole /\ "console" \notin cleared)
    /\ ops' = ops + 1
    /\ last' = [NoLast EXCEPT !.op = "logging.unsilence"]
    /\ UNCHANGED <<namedLoggers, loggers, loggerNamesSorted, handed, handlerState, cvars>>

\* The handlers that throw during one log call: none, or H1.
Throwers == {{}, {"H1"}}

\* The frame of the steps of one dispatch: registry, loggers, flags.
dispatchFrame == <<namedLoggers, loggers, loggerNamesSorted, handed, ops, _silenceAll, _silenceConsole>>

\* Logger#log, up to its forEach: new Context(this.name, levelIdx, message,
\* args) at the time `now`; no handler has a view of it yet.
Construct(logger, levelIdx, msg, args, now) ==
    /\ context.n < MaxContexts
    /\ context' = [Context(logger, levelIdx, msg, args, now) EXCEPT !.n = context.n + 1]
    /\ views' = [h \in Handlers |-> NoView]
    /\ rendered' = [t \in Targets |-> NotRendered]
    /\ last' = [NoLast EXCEPT !.op = "new Context"]
    /\ UNCHANGED <<dispatchFrame, handlerState, dumper, dateSeen>>

\* One turn of the forEach of Logger#log: handler.log(context), which is
\* BaseHandler#log: this.onMessage(context.attachToHandler(this)).
HandlerLog(h) ==
    /\ context.n > 0 /\ ~views[h].attached
    /\ handlerAccepts(h, levelAt(context.levelIdx))
    /\ LET r == onMessage(h, context, attachToHandler(h), handlerState[h], dumper)
       IN  /\ context' = r.ctx
           /\ views' = [views EXCEPT ![h] = r.view]
           /\ handlerState' = [handlerState EXCEPT ![h] = r.hstate]
           /\ dumper' = r.dumper
           /\ rendered' = [rendered EXCEPT ![h] = r.message]
           /\ dateSeen' = [dateSeen EXCEPT ![h] = context._date.date]
           /\ last' = [NoLast EXCEPT !.op = "handler.log", !.target = h,
                                     !.message = r.message, !.shortDatetime = r.shortDatetime]
    /\ UNCHANGED dispatchFrame

\* A read of `message` on the Context or on the view of a handler.
ReadMessage(t) ==
    /\ context.n > 0 /\ (IF t = "ctx" THEN TRUE ELSE views[t].attached)
    /\ LET r == message(context, handlerOf(views, t), dumper)
       IN  /\ dumper' = r.dumper
           /\ rendered' = [rendered EXCEPT ![t] = r.str]
           /\ last' = [NoLast EXCEPT !.op = "message", !.target = t, !.message = r.str]
    /\ UNCHANGED <<dispatchFrame, handlerState, context, views, dateSeen>>

\* A read of `shortDatetime` on the Context or on the view of a handler.
ReadShortDatetime(t) ==
    /\ context.n > 0 /\ (IF t = "ctx" THEN TRUE ELSE views[t].attached)
    /\ LET lastDate == IF t = "ctx" THEN UndefinedStr ELSE handlerState[t]._lastDate
           r == shortDatetime(context, handlerOf(views, t), lastDate)
       IN  /\ handlerState' = IF t = "ctx" THEN handlerState
                              ELSE [handlerState EXCEPT ![t]._lastDate = r._lastDate]
           /\ dateSeen' = IF t = "ctx" THEN dateSeen
                          ELSE [dateSeen EXCEPT ![t] = context._date.date]
           /\ last' = [NoLast EXCEPT !.op = "shortDatetime", !.target = t,
                                     !.shortDatetime = r.str]
    /\ UNCHANGED <<dispatchFrame, context, views, dumper, rendered>>

Registry ==
    \/ \E name \in Names \cup {NoName} : GetLogger(name)
    \/ \E id \in DOMAIN loggers, seg \in Segments : Child(id, seg)
    \/ \E rel \in Names \cup {NoName} : LoggerFor(rel)

LevelsOver(inputs) ==
    \E id \in DOMAIN loggers, v \in inputs : SetLevelIdx(id, v)

Levels == LevelsOver(LevelIdxInputs)

LevelNamesOver(inputs) ==
    \E id \in DOMAIN loggers, level \in inputs : SetLevel(id, level)

Routing ==
    \/ \E id \in DOMAIN loggers, b \in BOOLEAN : SetPropagate(id, b)
    \/ \E id \in DOMAIN loggers, hs \in HandlerLists : SetHandlers(id, hs)

Silencing ==
    \/ \E id \in DOMAIN loggers : Silence(id)
    \/ \E id \in DOMAIN loggers : Unsilence(id)

Logging ==
    \/ \E id \in DOMAIN loggers, level \in LevelArgs, T \in Throwers : Log(id, level, T)
    \/ \E level \in LevelArgs, T \in Throwers : ModuleLog(level, T)

\* Every operation; the level assignments draw from ThresholdInputs.
Next == Registry \/ LevelsOver(ThresholdInputs) \/ Routing \/ Silencing \/ Logging

Spec == Init /\ [][Next]_vars

\* The registry and the level assignments, over every value of LevelIdxInputs.
SpecLevels == Init /\ [][Registry \/ Levels \/ LevelNamesOver(LevelArgs)]_vars

ProcessWide ==
    \/ \E all \in BOOLEAN : SilenceProcess(all)
    \/ \E cleared \in {{"all"}, {"console"}, {"all", "console"}} : UnsilenceProcess(cleared)

HandlerOps ==
    \/ \E handler \in Handlers, level \in LevelArgs : SetHandlerLevel(handler, level)
    \/ \E handler \in Handlers : LessVerbose(handler)
    \/ \E handler \in Handlers : MoreVerbose(handler)
    \/ \E handler \in Handlers : HandlerSilence(handler)
    \/ \E handler \in Handlers : HandlerUnsilence(handler)

Methods ==
    \E id \in DOMAIN loggers, i \in 1 .. Len(levels), T \in Throwers :
        LogMethod(id, levels[i], T)

\* The dispatch of log calls to handlers: the registry, the logger levels,
\* the handler lists, the silence flags of loggers, handlers and process, the
\* handler levels, and the log calls of both forms.
NextDispatch ==
    \/ GetLogger(<<"a">>)
    \/ LevelsOver({Num(3)})
    \/ \E id \in DOMAIN loggers, hs \in HandlerLists : SetHandlers(id, hs)
    \/ Silencing
    \/ ProcessWide
    \/ HandlerOps
    \/ \E id \in DOMAIN loggers, level \in LevelArgs \cup {Str("DEBUG")}, T \in Throwers :
          Log(id, level, T)
    \/ Methods

SpecDispatch == Init /\ [][NextDispatch]_vars

\* The assignments to the level of loggers and handlers, by index and by
\* name.
NextAssign ==
    \/ \E name \in {<<"a">>, <<"a", "b">>} : GetLogger(name)
    \/ LevelsOver({Num(3), Num(5)})
    \/ LevelNamesOver(LevelArgs)
    \/ \E handler \in Handlers, level \in LevelArgs : SetHandlerLevel(handler, level)

SpecAssign == Init /\ [][NextAssign]_vars

\* The data a log call puts on its Context: the registry, the extraData of
\* the loggers, and log calls.
NextData ==
    \/ \E name \in {<<"a">>, <<"a", "b">>} : GetLogger(name)
    \/ \E id \in DOMAIN loggers, data \in ExtraDatas : SetExtraData(id, data)
    \/ \E id \in DOMAIN loggers, level \in {Str("INFO"), NumArg(3)} : Log(id, level, {})

SpecData == Init /\ [][NextData]_vars

\* The Contexts of successive log calls, the views the handlers get of them
\* and what is read from them.
NextContext ==
    \/ \E levelIdx \in {2, 3}, msg \in Templates, args \in ArgLists, now \in Dates :
          Construct(<<"a">>, levelIdx, msg, args, now)
    \/ \E h \in Targets \ {"ctx"} : HandlerLog(h)
    \/ \E t \in Targets : ReadMessage(t)
    \/ \E t \in Targets : ReadShortDatetime(t)

SpecContext == Init /\ [][NextContext]_vars

----------------------------------------------------------------------------
(* Vocabulary of the properties *)

Registered == {namedLoggers[n] : n \in DOMAIN namedLoggers}

IsLog == last.op \in {"log", "logging.log"}

\* The index of a registered level name given in any letter case, -1 otherwise.
nameIndex(level) ==
    IF level.t # "str" THEN -1
    ELSE IF level.s \in {"TRACE", "trace"} THEN 0
    ELSE IF level.s \in {"DEBUG", "debug"} THEN 1
    ELSE IF level.s \in {"ERROR", "error"} THEN 4
    ELSE IF level.s \in {"INFO", "info"} THEN 2
    ELSE IF level.s \in {"WARN", "warn"} THEN 3
    ELSE IF level.s \in {"CRITICAL", "critical"} THEN 5
    ELSE -1

\* A registered level name in any letter case, or a valid level index.
IsLevel(level) ==
    nameIndex(level) >= 0 \/ (level.t = "num" /\ level.n \in 0 .. Len(levels) - 1)

\* a is a proper prefix of b: the logger named a is above the logger named b.
IsAbove(a, b) == Len(a) < Len(b) /\ SubSeq(b, 1, Len(a)) = a

\* The registered loggers strictly above instance id that have an own level.
LevelledAbove(id) ==
    {namedLoggers[n] : n \in {m \in DOMAIN namedLoggers :
        IsAbove(m, loggers[id].name) /\ loggers[namedLoggers[m]].__levelIdx.def}}

\* The nearest of them: the one with the longest name.
NearestLevelled(id) ==
    CHOOSE x \in LevelledAbove(id) :
        \A y \in LevelledAbove(id) : Len(loggers[y].name) <= Len(loggers[x].name)

----------------------------------------------------------------------------
(* Properties *)

\* C1: singleton per name: every getLogger(n) call returns the same instance
\* as every other call with that n, and no two distinct Logger instances of
\* the same name are ever handed out.
C1_SingletonPerName ==
    /\ \A p, q \in handed : p.arg = q.arg => p.ret = q.ret
    /\ \A p, q \in handed : loggers[p.ret].name = loggers[q.ret].name => p.ret = q.ret

\* C2: a logger whose own propagate flag is false has exactly its own
\* handlers as effective handler list; with root owning H0, 'a' owning H1
\* (propagate) and 'a.b' owning H2 (propagate = false), 'a.b' has [H2] and
\* 'a' has [H1, H0].
C2_PropagationCutoff ==
    /\ \A id \in DOMAIN loggers :
          ~loggers[id].propagate => handlersOf(id) = loggers[id]._handlers
    /\ \A a, ab \in Registered :
          (/\ loggers[a].name = <<"a">> /\ loggers[ab].name = <<"a", "b">>
           /\ loggers[RootInst]._handlers = <<"H0">>
           /\ loggers[a]._handlers = <<"H1">> /\ loggers[a].propagate
           /\ loggers[ab]._handlers = <<"H2">> /\ ~loggers[ab].propagate)
          => handlersOf(ab) = <<"H2">> /\ handlersOf(a) = <<"H1", "H0">>

\* C3: a logger below root that has propagate = true, as have all its
\* registered ancestors below root, has every handler of root in its
\* effective handler list.
C3_RootHandlersInherited ==
    \A id \in Registered :
        (/\ loggers[id].name # <<"root">>
         /\ loggers[id].propagate
         /\ \A n \in DOMAIN namedLoggers :
               IsAbove(n, loggers[id].name) => loggers[namedLoggers[n]].propagate)
        => \A i \in 1 .. Len(loggers[RootInst]._handlers) :
               \E j \in 1 .. Len(handlersOf(id)) :
                   handlersOf(id)[j] = loggers[RootInst]._handlers[i]

\* C4: the levelIdx read from a logger with no own level is the own levelIdx
\* of its nearest registered ancestor that has one, and the levelIdx read
\* from root when there is none.
C4_LevelInheritance ==
    \A id \in Registered :
        ~loggers[id].__levelIdx.def =>
            levelIdxOf(id) =
                IF LevelledAbove(id) = {} THEN levelIdxOf(RootInst)
                ELSE loggers[NearestLevelled(id)].__levelIdx.v

\* C5: assigning levelIdx = v (a level index) to a logger makes that logger
\* and its descendants without a nearer own level read v, and changes the
\* levelIdx read from no other logger.
C5_SetLevelFrame ==
    [][(last'.op = "levelIdx=" /\ ops' = ops + 1 /\ last'.val.def /\ last'.val.v >= 0)
       => LET L == last'.logger
              v == last'.val.v
              Under(id) ==
                  \/ id = L
                  \/ L = RootInst
                  \/ L \in Registered /\ IsAbove(loggers[L].name, loggers[id].name)
              Inherits(id) ==
                  \/ id = L
                  \/ /\ Under(id)
                     /\ ~loggers[id].__levelIdx.def
                     /\ \A x \in LevelledAbove(id) :
                           x # L => L # RootInst /\ IsAbove(loggers[x].name, loggers[L].name)
          IN  /\ \A id \in DOMAIN loggers : Inherits(id) => levelIdxOf(id)' = v
              /\ \A id \in DOMAIN loggers : ~Under(id) => levelIdxOf(id)' = levelIdxOf(id)
      ]_vars

\* C6: on an unsilenced logger with effective levelIdx T, log(level) with a
\* registered level name offers the Context to no handler when the level's
\* index is below T, and to every handler of the effective handler list, in
\* order, when it is T or above.
C6_LevelFilter ==
    (IsLog /\ ~silenced(loggers, last.logger) /\ nameIndex(last.lvl) >= 0) =>
        /\ nameIndex(last.lvl) < levelIdxOf(last.logger) => last.out.offered = << >>
        /\ nameIndex(last.lvl) >= levelIdxOf(last.logger)
              => last.out.offered = handlersOf(last.logger)

\* C6 witness: a logger at WARN has logged at 'warn' and its handlers got it.
C6_Witness ==
    /\ last.op = "log" /\ ~silenced(loggers, last.logger)
    /\ levelIdxOf(last.logger) = 3 /\ last.lvl = Str("warn")
    /\ last.out.offered # << >>

\* C7: on an unsilenced logger, log(level) with a level that is neither a
\* registered level name (in any letter case) nor a valid level index raises
\* UnknownLevel with no handler invoked; and whenever log raises, it is
\* UnknownLevel with no handler invoked.
C7_UnknownLevelFailsFast ==
    (IsLog /\ ~silenced(loggers, last.logger)) =>
        /\ ~IsLevel(last.lvl)
              => last.out.raised = "UnknownLevel" /\ last.out.offered = << >>
        /\ last.out.raised # "none"
              => last.out.raised = "UnknownLevel" /\ last.out.offered = << >>

\* C8: a handler that throws during a log call neither makes log() raise nor
\* keeps any handler of the effective handler list from being offered the
\* Context; log() returns the logger.
C8_HandlerIsolation ==
    (IsLog /\ last.out.failed # {}) =>
        /\ last.out.raised = "none"
        /\ last.out.ret = last.logger
        /\ last.out.offered = handlersOf(last.logger)

\* C8 witness: with handlers [H1, H2, ...] H1 threw and H2 was offered the
\* Context after it.
C8_Witness ==
    /\ last.op = "log" /\ last.out.failed = {"H1"}
    /\ Len(last.out.offered) >= 2
    /\ last.out.offered[1] = "H1" /\ last.out.offered[2] = "H2"

\* C9: getLogger() with an empty or absent name, getLogger('root'), the
\* fallback of loggerFor and the logger of logging.log are all the root
\* Logger instance, the one created with the default console handler.
C9_OneRoot ==
    /\ \A p \in handed : p.arg \in {NoName, <<"root">>} => p.ret = RootInst
    /\ last.op = "logging.log" => last.logger = RootInst

\* C10: after logger.levelIdx = v with v in 0 .. 5, logger.levelIdx reads v.
C10_LevelIdxSettable ==
    (last.op = "levelIdx=" /\ last.val.def /\ last.val.v >= 0)
        => levelIdxOf(last.logger) = last.val.v

\* C11: the parent of the root logger is an empty object, and the parent of
\* a handed-out logger named 'p.c' is the instance registered under 'p'.
C11_ParentReference ==
    \A p \in handed :
        /\ p.ret = RootInst => parent(loggers, p.ret) = EmptyObject
        /\ (Len(loggers[p.ret].name) >= 2
             /\ Prefix(loggers[p.ret].name, 1) \in DOMAIN namedLoggers)
               => parent(loggers, p.ret)
                    = LoggerRef(namedLoggers[Prefix(loggers[p.ret].name, 1)])

\* C12: a step that registers a name registers exactly that one name with
\* one newly constructed Logger of that name, registers no other name (no
\* intermediate ancestor), and leaves every existing registration and every
\* existing Logger unchanged; a call with an unregistered name registers the
\* instance it returns under that name.
C12_NoIntermediates ==
    [][/\ (namedLoggers' # namedLoggers \/ DOMAIN loggers' # DOMAIN loggers) =>
            \E n \in Names :
                /\ n \notin DOMAIN namedLoggers
                /\ DOMAIN namedLoggers' = DOMAIN namedLoggers \cup {n}
                /\ \A m \in DOMAIN namedLoggers : namedLoggers'[m] = namedLoggers[m]
                /\ namedLoggers'[n] \notin DOMAIN loggers
                /\ DOMAIN loggers' = DOMAIN loggers \cup {namedLoggers'[n]}
                /\ loggers'[namedLoggers'[n]].name = n
                /\ \A id \in DOMAIN loggers : loggers'[id] = loggers[id]
       /\ \A p \in handed' \ handed :
            p.arg # NoName => p.arg \in DOMAIN namedLoggers' /\ namedLoggers'[p.arg] = p.ret
      ]_vars

\* C12 witness: 'a.b.c' is registered and neither 'a' nor 'a.b' is.
C12_Witness ==
    /\ last.op = "getLogger"
    /\ <<"a", "b", "c">> \in DOMAIN namedLoggers
    /\ <<"a">> \notin DOMAIN namedLoggers
    /\ <<"a", "b">> \notin DOMAIN namedLoggers

\* The own handlers of the loggers of `chain`, one list after the other.
RECURSIVE OwnHandlersAlong(_)
OwnHandlersAlong(chain) ==
    IF chain = << >> THEN << >>
    ELSE loggers[Head(chain)]._handlers \o OwnHandlersAlong(Tail(chain))

\* The registered loggers strictly above instance id, nearest first.
RECURSIVE AncestorsNearestFirst(_, _)
AncestorsNearestFirst(name, k) ==
    IF k >= Len(name) THEN << >>
    ELSE (IF SubSeq(name, 1, Len(name) - k) \in DOMAIN namedLoggers
          THEN <<namedLoggers[SubSeq(name, 1, Len(name) - k)]>> ELSE << >>)
         \o AncestorsNearestFirst(name, k + 1)

\* C13: a log call that passes the level test on an unsilenced logger below
\* root, where the logger and its registered ancestors have the default
\* propagate = true, invokes in this order the logger's own handlers, then
\* the own handlers of each registered ancestor from the nearest outward,
\* then root's handlers.
C13_DispatchOrder ==
    LET L == last.logger
        chain == AncestorsNearestFirst(loggers[L].name, 1)
    IN  (/\ last.op = "log" /\ ~silenced(loggers, L) /\ last.out.raised = "none"
         /\ nameIndex(last.lvl) >= levelIdxOf(L)
         /\ loggers[L].name # <<"root">>
         /\ \A i \in 1 .. Len(chain) : loggers[chain[i]].propagate
         /\ loggers[L].propagate)
        => last.out.offered
             = OwnHandlersAlong(<<L>> \o chain) \o loggers[RootInst]._handlers

\* C14: log() on a silenced logger raises nothing, even for an unknown
\* level, invokes no handler, constructs no Context, returns the logger, and
\* changes no logger, registry, handler or process-wide state.
C14_SilencedNoOp ==
    [][(last'.op = "log" /\ silenced(loggers, last'.logger)) =>
          /\ last'.out.raised = "none"
          /\ last'.out.offered = << >> /\ last'.out.received = << >>
          /\ last'.out.ctx = NoCtx
          /\ last'.out.ret = last'.logger
          /\ UNCHANGED <<namedLoggers, loggers, loggerNamesSorted, hvars, cvars>>
      ]_vars

\* C14 witness: a silenced logger was asked to log at an unknown level.
C14_Witness ==
    /\ last.op = "log" /\ silenced(loggers, last.logger)
    /\ last.lvl = Str("NOT_A_LEVEL") /\ last.out.raised = "none"

\* C15: logger.silenced is true exactly when the own flag or silence-all is
\* set; logger.unsilence() leaves silence-all and every other own flag alone,
\* so every logger stays silenced while silence-all is active; the
\* process-wide operations change no logger's own flag.
C15_SilenceFlagsOr ==
    [][/\ \A id \in DOMAIN loggers' :
            silenced(loggers, id)' <=> (loggers'[id]._silenced \/ _silenceAll')
       /\ last'.op = "silence" =>
            \E L \in DOMAIN loggers :
                /\ silenced(loggers, L)'
                /\ \A id \in DOMAIN loggers \ {L} :
                      loggers'[id]._silenced = loggers[id]._silenced
       /\ last'.op = "unsilence" =>
            /\ _silenceAll' = _silenceAll
            /\ \A id \in DOMAIN loggers : _silenceAll => silenced(loggers, id)'
            /\ \E L \in DOMAIN loggers :
                  /\ ~loggers'[L]._silenced
                  /\ \A id \in DOMAIN loggers \ {L} :
                        loggers'[id]._silenced = loggers[id]._silenced
       /\ last'.op \in {"logging.silence", "logging.unsilence"} =>
            \A id \in DOMAIN loggers :
                /\ loggers'[id]._silenced = loggers[id]._silenced
                /\ loggers[id]._silenced => silenced(loggers, id)'
      ]_vars

\* C15 witness: after logger.unsilence() under silence-all a logger whose
\* own flag is clear is still silenced.
C15_Witness ==
    /\ last.op = "unsilence" /\ _silenceAll
    /\ \E id \in DOMAIN loggers : ~loggers[id]._silenced /\ silenced(loggers, id)

\* A log call of either form.
IsDispatch == last.op \in {"log", "logging.log", "logAt"}

\* h occurs in the sequence hs.
Among(h, hs) == \E i \in 1 .. Len(hs) : hs[i] = h

\* C16: no handler receives a Context while its own flag or silence-all is
\* set, nor a console handler while silence-console is set; a non-console
\* handler without level that is offered a Context receives it when neither
\* its own flag nor silence-all is set, whatever silence-console is.
C16_HandlerSilencing ==
    IsDispatch =>
        \A h \in Handlers :
            /\ Among(h, last.out.received) =>
                  /\ ~handlerState[h]._silenced /\ ~_silenceAll
                  /\ h = "H0" => ~_silenceConsole
            /\ (/\ Among(h, last.out.offered) /\ h # "H0"
                /\ handlerState[h]._level = UndefinedStr
                /\ ~handlerState[h]._silenced /\ ~_silenceAll)
               => Among(h, last.out.received)

\* C16 witness: under silence-console the console handler H0 was offered a
\* Context and did not receive it, and H1 received it.
C16_Witness ==
    /\ last.op = "log" /\ _silenceConsole
    /\ Among("H0", last.out.offered) /\ ~Among("H0", last.out.received)
    /\ Among("H1", last.out.received)

\* C17: logger.<l>(message) has the outcome of logger.log(L, message): the
\* same handlers offered and receiving a Context of the same level, the same
\* return value, raising in the same cases.
C17_MethodsAreLog ==
    last.op = "logAt" =>
        last.out = log(namedLoggers, loggers, last.logger, last.lvl, last.T)

\* C18: the level lookup made for `handler.level = x` yields the index of a
\* registered level name in any letter case, yields a valid index unchanged,
\* and raises UnknownLevel for every other defined input.
C18_LevelLookup ==
    last.op = "level=" =>
        /\ nameIndex(last.lvl) >= 0 =>
              last.out.raised = "none" /\ last.val = Num(nameIndex(last.lvl))
        /\ (last.lvl.t = "num" /\ last.lvl.n \in 0 .. Len(levels) - 1) =>
              last.out.raised = "none" /\ last.val = Num(last.lvl.n)
        /\ (last.lvl.t # "undef" /\ ~IsLevel(last.lvl)) =>
              last.out.raised = "UnknownLevel"

\* C19: for a registered level, nextLevelUp yields the next higher level and
\* CRITICAL for CRITICAL, nextLevelDown yields the next lower level and
\* undefined for TRACE, and neither raises.
C19_AdjacentLevels ==
    /\ (last.op = "lessVerbose" /\ nameIndex(last.lvl) >= 0) =>
          /\ last.out.raised = "none"
          /\ last.res = IF nameIndex(last.lvl) = Len(levels) - 1 THEN "CRITICAL"
                        ELSE levels[nameIndex(last.lvl) + 2]
    /\ (last.op = "moreVerbose" /\ nameIndex(last.lvl) >= 0) =>
          /\ last.out.raised = "none"
          /\ last.res = IF nameIndex(last.lvl) = 0 THEN UndefinedStr
                        ELSE levels[nameIndex(last.lvl)]

\* C19 witness: lessVerbose on a handler at CRITICAL stepped up to CRITICAL.
C19_Witness ==
    last.op = "lessVerbose" /\ last.lvl = Str("CRITICAL") /\ last.res = "CRITICAL"

C21_PropagateCutsHandlersOnly ==
    [][/\ last'.op = "propagate=" =>
            \A id \in DOMAIN loggers : levelIdxOf(id)' = levelIdxOf(id)
       /\ \A id \in Registered' :
            (/\ ~loggers'[id].__levelIdx.def
             /\ LevelledAbove(id)' # {}
             /\ \E n \in DOMAIN namedLoggers' :
                   IsAbove(n, loggers'[id].name) /\ ~loggers'[namedLoggers'[n]].propagate)
            => levelIdxOf(id)' = loggers'[NearestLevelled(id)'].__levelIdx.v
      ]_vars

\* C26: a getLogger call that registers a new logger changes neither the
\* levelIdx nor the handler list read from any logger registered before it.
C26_RegistrationTransparent ==
    [][namedLoggers' # namedLoggers =>
         \A id \in Registered :
            /\ levelIdxOf(id)' = levelIdxOf(id)
            /\ handlersOf(id)' = handlersOf(id)
      ]_vars

\* C30: Logger.loggerNamesSorted is in ascending order of name length and
\* lists 'root' and every registered name exactly once.
C30_NamesSortedAscending ==
    /\ \A i, j \in 1 .. Len(loggerNamesSorted) :
          i < j => length(loggerNamesSorted[i]) <= length(loggerNamesSorted[j])
    /\ \A n \in DOMAIN namedLoggers \cup {<<"root">>} :
          Cardinality({i \in 1 .. Len(loggerNamesSorted) : loggerNamesSorted[i] = n}) = 1

\* C24: a log call that does not raise returns the logger it was called on,
\* whether the logger is silenced, the level is below the logger's, the
\* message is delivered, or handlers throw.
C24_LogReturnsLogger ==
    (last.op = "log" /\ last.out.raised = "none") => last.out.ret = last.logger

C24_Witness ==
    /\ last.op = "log" /\ last.logger \in Registered
    /\ last.out.failed # {} /\ last.out.raised = "none"
    /\ last.out.ret = last.logger

\* C25: for every logger, the level name read is the name at the levelIdx
\* read, levels[levelIdx], and undefined exactly when levelIdx is -1, for own
\* and inherited levels alike.
C25_LevelMatchesIndex ==
    \A id \in DOMAIN loggers : levelOf(id) = levelAt(levelIdxOf(id))

RECURSIVE mergeAlong(_)
mergeAlong(chain) ==
    IF chain = << >> THEN NoData
    ELSE assign(mergeAlong(Tail(chain)), loggers[Head(chain)].extraData)

\* C23: the Context of every delivered log call carries the logger's own
\* extraData merged with that of its registered ancestors and of root, the
\* nearer logger winning on a shared key.
C23_ExtraDataInherited ==
    LET L == last.logger
        chain == <<L>> \o AncestorsNearestFirst(loggers[L].name, 1)
                     \o (IF L = RootInst THEN << >> ELSE <<RootInst>>)
    IN  (last.op = "log" /\ last.out.ctx # NoCtx) => last.out.ctx.data = mergeAlong(chain)

\* C22: reading the message of a Context, or of a view of it, changes
\* neither the stored template nor the arguments nor the timestamp of the
\* Context, and gives the string the same target gave when it was last read
\* for this Context, whatever was read from other targets in between.
C22_IdempotentRendering ==
    [][last'.op \in {"message", "handler.log"} =>
         /\ context'._message = context._message
         /\ context'.args = context.args
         /\ context'._date = context._date
         /\ rendered[last'.target] # NotRendered => last'.message = rendered[last'.target]
      ]_vars

C22_Witness ==
    /\ last.op = "message" /\ last.target = "H1"
    /\ rendered["H0"] # NotRendered /\ rendered["ctx"] # NotRendered
    /\ rendered["H0"] # rendered["H1"]
    /\ dumper = "default"

\* C27: the view a handler receives names that handler; what the console
\* handler writes on its view (levelColor) is on that view alone, not on the
\* Context and not on the view of another handler; and a handler's turn
\* changes neither the Context nor the view of any other handler.
C27_ViewsIsolated ==
    [][/\ \A h \in Handlers : views'[h].attached => views'[h].handler = h
       /\ context'.levelColor = UndefinedStr
       /\ \A h \in Handlers : views'[h].levelColor # UndefinedStr => isConsole(h)
       /\ last'.op = "handler.log" =>
            /\ context' = context
            /\ \A g \in Handlers \ {last'.target} : views'[g] = views[g]
      ]_vars

C27_Witness ==
    /\ last.op = "handler.log" /\ last.target = "H0"
    /\ views["H0"].levelColor = "33"
    /\ views["H1"].attached /\ views["H1"].levelColor = UndefinedStr
    /\ context.levelColor = UndefinedStr /\ context.levelIdx = 3

\* C29: a shortDatetime read through a handler's view starts with the date
\* exactly when the date of the Context differs from the date of the Context
\* that handler last read it from (always on its first read), and the read
\* leaves the last date of every other handler as it was.
C29_DateOnChange ==
    [][(last'.op \in {"handler.log", "shortDatetime"} /\ last'.target # "ctx") =>
         /\ Len(last'.shortDatetime) = 2 <=> context._date.date # dateSeen[last'.target]
         /\ Len(last'.shortDatetime) = 2 => last'.shortDatetime[1] = context._date.date
         /\ \A g \in Handlers \ {last'.target} :
               handlerState'[g]._lastDate = handlerState[g]._lastDate
      ]_vars

C29_Witness ==
    /\ last.op = "handler.log" /\ last.target = "H1" /\ context.n = 3
    /\ Len(last.shortDatetime) = 1
    /\ dateSeen["H0"] # UndefinedStr /\ dateSeen["H0"] # dateSeen["H1"]

====
